---- MODULE Spec2Model ----
\* The robots.txt harvesting pipeline of gogorobot.go: main (the coordinator),
\* the fetchRobot workers and the saveRobots goroutine, communicating over the
\* two unbuffered channels fetchPipeline and savePipeline. Two other variants
\* of the program follow it: the earlier pipeline of src/unnamed/part_002 and
\* the command line tool gogorobotcli.go.
EXTENDS Integers, Sequences, FiniteSets, TLC

\* ---------------------------------------------------------------- bounds

\* Number of fetchRobot goroutines main starts (50 in the source).
NumWorkers == 2
\* Largest number of lines main reads from stdin.
NumDomains == 2
\* The same, for the runs in which stdin holds more lines than there are workers.
PoolDomains == 4

\* ------------------------------------------------------ program constants

\* fr.Attempt > 2: "Maximum attempts reached".
MaxAttempts == 2
\* len(via) > 10: "stopped after 10 redirects".
RedirectCap == 10

\* As Workers, with the loop that starts them running once more.
WorkersOneMore == 0..NumWorkers

\* for i := 0; i < 50; i++ { go fetchRobot(...) }
Workers == 1..NumWorkers

\* The domains stdin may hold: without and with the "www." prefix.
InputDomains == {"a.com", "www.b.org"}

\* ------------------------------------------------------------- strings

\* strings.HasPrefix(s, prefix)
HasPrefix(s, prefix) ==
    Len(s) >= Len(prefix) /\ SubSeq(s, 1, Len(prefix)) = prefix

\* ------------------------------------------------------------ data types

\* FetchRequest{Domain, Attempt}. lin, tries, fb and rd are history fields:
\* the input line the request descends from, the HTTP attempts made for it so
\* far, and how many of them ended in the www fallback and in a body read error.
FetchRequest(domain, attempt, lin) ==
    [Domain |-> domain, Attempt |-> attempt, lin |-> lin,
     tries |-> 0, fb |-> 0, rd |-> 0]

NoReq == [Domain |-> "", Attempt |-> 0, lin |-> 0, tries |-> 0, fb |-> 0, rd |-> 0]

\* RobotResponse{Domain, Url, HasRobots, FetchTime, Body, Redirects}; FetchTime
\* is left out, lin is the history field of the request.
RobotResponse(domain, url, hasRobots, body, redirects, lin) ==
    [Domain |-> domain, Url |-> url, HasRobots |-> hasRobots,
     Body |-> body, Redirects |-> redirects, lin |-> lin]

NoResp == RobotResponse("", "", FALSE, "", 0, 0)

\* A row robots.db holds from an earlier run, and how many of them it holds
\* when the run begins.
PriorRow == RobotResponse("old.net", "http://old.net/robots.txt", TRUE, "User-agent: *", 0, 0)
PriorCounts == {1}

\* ------------------------------------------------- the HTTP environment

\* What the network answers to one client.Do: the servers send `hops` redirect
\* responses and then the request ends in `err` or, with err = "none", in a
\* response with `status` and the Content-Type values `ctypes`, whose body
\* read fails iff readErr.
\*   dnsNoHost  url.Error > net.OpError > net.DNSError, not Timeout/Temporary
\*   dnsTimeout url.Error > net.OpError > net.DNSError, Timeout
\*   opTimeout  url.Error > net.OpError, Timeout or Temporary
\*   opRefused  url.Error > net.OpError, neither
\*   other      an error that is no net.OpError
\*   redirect   the error CheckRedirect returns
Outcome(err, hops, status, ctypes, readErr) ==
    [err |-> err, hops |-> hops, status |-> status, ctypes |-> ctypes,
     readErr |-> readErr]

ErrKinds == {"dnsNoHost", "dnsTimeout", "opTimeout", "opRefused", "other"}

IsOpError(err) == err \in {"dnsNoHost", "dnsTimeout", "opTimeout", "opRefused"}
IsDNSError(err) == err \in {"dnsNoHost", "dnsTimeout"}

\* As IsTimeoutOrTemporary, with "no such host" taken for temporary.
IsTimeoutOrTemporaryOrNoHost(err) == err \in {"dnsTimeout", "opTimeout", "dnsNoHost"}

\* netErr.Timeout() || netErr.Temporary()
IsTimeoutOrTemporary(err) == err \in {"dnsTimeout", "opTimeout"}

ContentTypes == {"text/plain", "text/plain; charset=utf-8", "text/html", "text"}
Statuses == {199, 200, 206, 207, 404}
HopCounts == {0, 1, RedirectCap, RedirectCap + 1, RedirectCap + 2}

HeaderLists ==
    {<<>>} \cup {<<a>> : a \in ContentTypes}
           \cup {<<a, b>> : a \in ContentTypes, b \in ContentTypes}

\* Every outcome of one attempt.
AllOutcomes ==
    {Outcome(e, h, 0, <<>>, FALSE) : e \in ErrKinds, h \in HopCounts}
    \cup {Outcome("none", h, s, c, r) :
            h \in HopCounts, s \in Statuses, c \in HeaderLists, r \in BOOLEAN}

\* The outcomes the pipeline is run against: one of each class.
PipeOutcomes ==
    { Outcome("opTimeout", 0, 0, <<>>, FALSE),
      Outcome("dnsNoHost", 0, 0, <<>>, FALSE),
      Outcome("none", 1, 200, <<"text/plain">>, FALSE),
      Outcome("none", 0, 404, <<>>, FALSE) }

RedirectTarget == "http://r.example/robots.txt"
RobotsBody == "User-agent: *"

\* ---------------------------------------------------------------- state

VARIABLES
    proc,          \* "running", "panic" (send on closed channel), "fatal" (log.Fatal)
    mainPc,        \* main: "read", "send", "sleep", "waitFetch", "waitSave", "done", "dead"
    mainReq,       \* the FetchRequest main is sending
    nread,         \* lines read from stdin so far
    fetchClosed,   \* close(fetchPipeline) has run
    saveClosed,    \* close(savePipeline) has run
    wpc,           \* worker: "recv", "http", "sendRetry", "sendSave", "exited", "dead"
    wfr,           \* worker: fr
    wout,          \* worker: err, resp and lastVia of the attempt
    wresp,         \* worker: the RobotResponse it is sending
    spc,           \* saveRobots: "loop", "count", "done", "dead"
    tx,            \* rows inserted in the open transaction
    committed,     \* rows of table robots
    saveCount,
    failCount,
    total,         \* the COUNT(*) read at the end, -1 before
    pushed,        \* history: the responses received from savePipeline
    flushed,       \* history: how many of them were received before the last commit
    faults,        \* history: how many operations on robots.db have failed
    abandoned      \* history: the requests dropped at "Maximum attempts reached"

\* The state of gogorobot.go.
pipeVars == <<proc, mainPc, mainReq, nread, fetchClosed, saveClosed, wpc, wfr, wout,
              wresp, spc, tx, committed, saveCount, failCount, total, pushed, flushed,
              faults, abandoned>>

\* The state of the earlier pipeline, src/unnamed/part_002: main feeds
\* domains to fetchRobot goroutines that push RobotResponses to saveRobots.
VARIABLES
    p2proc,        \* "running", "fatal" (log.Fatal), "done" (main returned)
    p2closed,      \* close(fetchPipeline) has run
    p2fed,         \* domains main has handed to a worker
    p2pc,          \* worker: "recv", "push", "readall", "exited", "dead"
    p2lin,         \* history: the line whose domain the worker is working on
    p2todo,        \* the RobotResponses this pass of the loop has yet to push
    p2readErr,     \* whether ioutil.ReadAll of this pass fails
    p2got          \* history: the RobotResponses saveRobots received, in order

part2Vars == <<p2proc, p2closed, p2fed, p2pc, p2lin, p2todo, p2readErr, p2got>>

\* for i := 0; i < 5000; i++ { go fetchRobot(...) }
Part2Workers == 1..NumWorkers

\* part_002's main after the goroutines are started.
Part2Start ==
    /\ p2proc = "running"
    /\ p2closed = FALSE
    /\ p2fed = 0
    /\ p2pc = [w \in Part2Workers |-> "recv"]
    /\ p2lin = [w \in Part2Workers |-> 0]
    /\ p2todo = [w \in Part2Workers |-> <<>>]
    /\ p2readErr = [w \in Part2Workers |-> FALSE]
    /\ p2got = <<>>

\* The state of the command line variant, src/gogorobotcli.go: run() with
\* its reader goroutine, its worker goroutines, the goroutine that closes
\* out, and the loop that prints.
VARIABLES
    cproc,         \* "running", "fatal" (log.Fatalf), "returned" (run() returned)
    crpc,          \* reader: "scan", "send", "done", "dead"
    creq,          \* the task the reader is sending on in
    taskCount,     \* tasks the reader has handed over
    inClosed,      \* close(in) has run
    cwpc,          \* worker: "recv", "get", "load", "store", "send", "exited", "dead"
    cwt,           \* the task (*RobotResponse) the worker holds
    cwloc,         \* process()'s locals attempt and lastVia, and the value of
                   \* success read by success += 1
    success,       \* the global counter
    wgCount,       \* the WaitGroup's counter
    outClosed,     \* close(out) has run
    printed        \* history: the line and the HasRobots of the tasks printed, in order

cliVars == <<cproc, crpc, creq, taskCount, inClosed, cwpc, cwt, cwloc, success,
             wgCount, outClosed, printed>>

\* for i := 0; i < WORKERS; i++ { wg.Add(1); go func() {...}() }
CliWorkers == 1..NumWorkers

\* f.make(line): &RobotResponse{line, "", false, time.Now(), "", 0}; lin is
\* the history field, the number of the line.
CliTask(line, lin) ==
    [Domain |-> line, Url |-> "", HasRobots |-> FALSE, Body |-> "",
     Redirects |-> 0, lin |-> lin]

NoTask == CliTask("", 0)

\* attempt := 0; var lastVia []*http.Request
NoLocals == [attempt |-> 0, lastVia |-> 0, reg |-> 0]

\* run() when its goroutines are started: one wg.Add(1) for the reader and
\* one for each worker.
CliStart ==
    /\ cproc = "running"
    /\ crpc = "scan"
    /\ creq = NoTask
    /\ taskCount = 0
    /\ inClosed = FALSE
    /\ cwpc = [w \in CliWorkers |-> "recv"]
    /\ cwt = [w \in CliWorkers |-> NoTask]
    /\ cwloc = [w \in CliWorkers |-> NoLocals]
    /\ success = 0
    /\ wgCount = 1 + Cardinality(CliWorkers)
    /\ outClosed = FALSE
    /\ printed = <<>>

\* The state of the other variants of the program, which stand still while
\* gogorobot.go runs.
variantVars == <<part2Vars, cliVars>>

\* The other variants have not begun.
VariantsStart == Part2Start /\ CliStart

vars == <<pipeVars, variantVars>>

mainVars == <<mainPc, mainReq, nread>>
saveVars == <<spc, tx, committed, saveCount, failCount, total, pushed, flushed, faults>>
workerVars == <<wpc, wfr, wout, wresp>>

\* ------------------------------------------------------------- client.Do

\* What one client.Do leaves in the worker's locals: err, the length of
\* lastVia, the redirects followed, and the response's status, Content-Type
\* values and whether reading its body fails.
ClientResult(err, lastVia, followed, o) ==
    [err |-> err, lastVia |-> lastVia, followed |-> followed,
     status |-> IF err = "none" THEN o.status ELSE 0,
     ctypes |-> IF err = "none" THEN o.ctypes ELSE <<>>,
     readErr |-> err = "none" /\ o.readErr]

NoResult == [err |-> "none", lastVia |-> 0, followed |-> 0, status |-> 0,
             ctypes |-> <<>>, readErr |-> FALSE]

\* CheckRedirect called with len(via) = n returns its error.
CheckRedirectFails(n) == n > RedirectCap

\* The client following redirects: `via` requests have been answered by a
\* redirect so far. Before it follows the next one the client calls
\* CheckRedirect with the via+1 requests made, which sets lastVia.
RECURSIVE Follow(_, _, _)
Follow(o, via, lastVia) ==
    IF via < o.hops
    THEN IF CheckRedirectFails(via + 1)
         THEN ClientResult("redirect", via + 1, via, o)
         ELSE Follow(o, via + 1, via + 1)
    ELSE ClientResult(o.err, lastVia, via, o)

\* lastVia = []*http.Request{}; resp, err := client.Do(req)
ClientDo(o) == Follow(o, 0, 0)

\* ------------------------------------------------------- fetchRobot's body

\* As AttemptsExhausted, comparing with >= for >.
AttemptsExhaustedEarly(attempt) == attempt >= MaxAttempts

\* fr.Attempt > 2
AttemptsExhausted(attempt) == attempt > MaxAttempts

\* As LacksWww, without the prefix test.
LacksWwwUnchecked(domain) == TRUE

\* !strings.HasPrefix(domain, "www.")
LacksWww(domain) == ~HasPrefix(domain, "www.")

\* As StatusOk, taking every 2xx status.
StatusOkAny2xx(status) == ~(status < 200 \/ status > 299)

\* The complement of resp.StatusCode < 200 || resp.StatusCode > 206
StatusOk(status) == ~(status < 200 \/ status > 206)

\* The loop over resp.Header["Content-Type"], from value i on.
RECURSIVE PlaintextFrom(_, _)
PlaintextFrom(ctypes, i) ==
    IF i > Len(ctypes) THEN TRUE
    ELSE IF ~HasPrefix(ctypes[i], "text/plain") THEN FALSE
    ELSE PlaintextFrom(ctypes, i + 1)

IsPlaintext(ctypes) == PlaintextFrom(ctypes, 1)

Resubmit(fr) == [act |-> "retry", fr |-> fr, resp |-> NoResp]
Save(resp) == [act |-> "save", fr |-> NoReq, resp |-> resp]

\* One pass of the loop body after the attempt check: the request, the
\* classification of err and resp, and what the worker sends next.
FetchDecision(fr, r) ==
    LET domain == fr.Domain
        urlPath == "http://" \o domain \o "/robots.txt"
        finalUrl == IF r.followed = 0 THEN urlPath ELSE RedirectTarget
        tried == [fr EXCEPT !.tries = @ + 1]
    IN  IF r.err # "none"
        THEN IF IsOpError(r.err) /\ IsDNSError(r.err) /\ LacksWww(domain)
             THEN Resubmit([tried EXCEPT !.Domain = "www." \o @, !.fb = @ + 1])
             ELSE IF IsOpError(r.err) /\ IsTimeoutOrTemporary(r.err)
             THEN Resubmit(tried)
             ELSE Save(RobotResponse(domain, "", FALSE, "", 0, fr.lin))
        ELSE IF ~StatusOk(r.status)
        THEN Save(RobotResponse(domain, finalUrl, FALSE, "", r.lastVia, fr.lin))
        ELSE IF ~IsPlaintext(r.ctypes)
        THEN Save(RobotResponse(domain, finalUrl, FALSE, "", r.lastVia, fr.lin))
        ELSE IF r.readErr
        THEN Resubmit([tried EXCEPT !.rd = @ + 1])
        ELSE Save(RobotResponse(domain, finalUrl, TRUE, RobotsBody, r.lastVia, fr.lin))

\* The request as the loop holds it after fr.Attempt += 1.
Pulled(fr) == [fr EXCEPT !.Attempt = @ + 1]

\* As PcAfterPull, with a worker that pushes a RobotResponse when the
\* attempts are exhausted.
PcAfterPullRecording(fr) == IF AttemptsExhausted(Pulled(fr).Attempt) THEN "sendSave" ELSE "http"

\* What a worker becomes when it receives fr: it continues at once when the
\* attempts are exhausted, else it goes on to the HTTP attempt.
PcAfterPull(fr) == IF AttemptsExhausted(Pulled(fr).Attempt) THEN "recv" ELSE "http"
FrAfterPull(fr) == IF AttemptsExhausted(Pulled(fr).Attempt) THEN NoReq ELSE Pulled(fr)
AbandonedAfterPull(fr) ==
    IF AttemptsExhausted(Pulled(fr).Attempt)
    THEN abandoned \cup {[lin |-> fr.lin, tries |-> fr.tries, fb |-> fr.fb, rd |-> fr.rd]}
    ELSE abandoned

\* ------------------------------------------------------------------ init

InitWorkers ==
    /\ wpc = [w \in Workers |-> "recv"]
    /\ wfr = [w \in Workers |-> NoReq]
    /\ wout = [w \in Workers |-> NoResult]
    /\ wresp = [w \in Workers |-> NoResp]

InitSave ==
    /\ spc = "loop"
    /\ tx = <<>>
    /\ \E n \in PriorCounts : committed = [i \in 1..n |-> PriorRow]
    /\ saveCount = 0
    /\ failCount = 0
    /\ total = -1
    /\ pushed = <<>>
    /\ flushed = 0
    /\ faults = 0

\* main after the goroutines are started, saveRobots at Loop with its first
\* transaction open; the other variants at their start.
Init ==
    /\ proc = "running"
    /\ mainPc = "read"
    /\ mainReq = NoReq
    /\ nread = 0
    /\ fetchClosed = FALSE
    /\ saveClosed = FALSE
    /\ InitWorkers
    /\ InitSave
    /\ abandoned = {}
    /\ VariantsStart

\* The process dies (a panic, or os.Exit in log.Fatal): the goroutines, the
\* channels and the open transaction are gone; the table and what was read
\* from stdin stay as they are.
Halt(how) ==
    /\ proc' = how
    /\ mainPc' = "dead"
    /\ mainReq' = NoReq
    /\ fetchClosed' = FALSE
    /\ saveClosed' = FALSE
    /\ wpc' = [w \in Workers |-> "dead"]
    /\ wfr' = [w \in Workers |-> NoReq]
    /\ wout' = [w \in Workers |-> NoResult]
    /\ wresp' = [w \in Workers |-> NoResp]
    /\ spc' = "dead"
    /\ tx' = <<>>
    /\ saveCount' = 0
    /\ failCount' = 0
    /\ faults' = IF how = "fatal" THEN faults + 1 ELSE faults
    /\ UNCHANGED <<nread, total, abandoned>>

\* ------------------------------------------------------------------ main

\* As ReadLine, with a main that does not wait for a worker to take the
\* request it is sending before it reads the next line.
ReadLineAhead(d, lines) ==
    /\ proc = "running" /\ mainPc \in {"read", "send"} /\ nread < lines
    /\ nread' = nread + 1
    /\ mainReq' = FetchRequest(d, 0, nread + 1)
    /\ mainPc' = "send"
    /\ UNCHANGED <<proc, fetchClosed, saveClosed, workerVars, saveVars, abandoned>>
    /\ UNCHANGED variantVars

\* reader.ReadString returns a line, of a stdin that holds at most `lines`
\* of them: main goes on to send the request.
ReadLine(d, lines) ==
    /\ proc = "running" /\ mainPc = "read" /\ nread < lines
    /\ nread' = nread + 1
    /\ mainReq' = FetchRequest(d, 0, nread + 1)
    /\ mainPc' = "send"
    /\ UNCHANGED <<proc, fetchClosed, saveClosed, workerVars, saveVars, abandoned>>
    /\ UNCHANGED variantVars

MainReadLine(d) == ReadLine(d, NumDomains)

\* reader.ReadString returns an error: break, then time.Sleep.
MainEOF ==
    /\ proc = "running" /\ mainPc = "read"
    /\ mainPc' = "sleep"
    /\ UNCHANGED <<proc, mainReq, nread, fetchClosed, saveClosed, workerVars,
                   saveVars, abandoned>>
    /\ UNCHANGED variantVars

\* The sleep is over, whatever the workers are doing: close(fetchPipeline).
MainCloseFetch ==
    /\ proc = "running" /\ mainPc = "sleep"
    /\ fetchClosed' = TRUE
    /\ mainPc' = "waitFetch"
    /\ UNCHANGED <<proc, mainReq, nread, saveClosed, workerVars, saveVars, abandoned>>
    /\ UNCHANGED variantVars

\* As AllWorkersExited, without the wait.
AllWorkersExitedNoWait == TRUE

\* fetchGroup.Wait() returns
AllWorkersExited == \A w \in Workers : wpc[w] = "exited"

\* fetchGroup.Wait(); close(savePipeline)
MainCloseSave ==
    /\ proc = "running" /\ mainPc = "waitFetch"
    /\ AllWorkersExited
    /\ saveClosed' = TRUE
    /\ mainPc' = "waitSave"
    /\ UNCHANGED <<proc, mainReq, nread, fetchClosed, workerVars, saveVars, abandoned>>
    /\ UNCHANGED variantVars

\* saveGroup.Wait() returns and main ends.
MainDone ==
    /\ proc = "running" /\ mainPc = "waitSave"
    /\ spc = "done"
    /\ mainPc' = "done"
    /\ UNCHANGED <<proc, mainReq, nread, fetchClosed, saveClosed, workerVars,
                   saveVars, abandoned>>
    /\ UNCHANGED variantVars

\* ---------------------------------------------------------------- workers

\* for fr := range fetchPipeline takes the request main is sending; then
\* fr.Attempt += 1 and the attempt check.
RecvFromMain(w) ==
    /\ proc = "running" /\ mainPc = "send" /\ ~fetchClosed
    /\ wpc[w] = "recv"
    /\ wpc' = [wpc EXCEPT ![w] = PcAfterPull(mainReq)]
    /\ wfr' = [wfr EXCEPT ![w] = FrAfterPull(mainReq)]
    /\ abandoned' = AbandonedAfterPull(mainReq)
    /\ mainPc' = "read"
    /\ mainReq' = NoReq
    /\ UNCHANGED <<proc, nread, fetchClosed, saveClosed, wout, wresp, saveVars>>
    /\ UNCHANGED variantVars

\* As RecvFromWorker, with a sender that goes on with the request it sent.
RecvFromWorkerKeepingCopy(w, v) ==
    /\ proc = "running" /\ ~fetchClosed
    /\ w # v /\ wpc[w] = "recv" /\ wpc[v] = "sendRetry"
    /\ wpc' = [wpc EXCEPT ![w] = PcAfterPull(wfr[v]), ![v] = "http"]
    /\ wfr' = [wfr EXCEPT ![w] = FrAfterPull(wfr[v])]
    /\ wout' = [wout EXCEPT ![v] = NoResult]
    /\ abandoned' = AbandonedAfterPull(wfr[v])
    /\ UNCHANGED <<proc, mainVars, fetchClosed, saveClosed, wresp, saveVars>>
    /\ UNCHANGED variantVars

\* The same, taking the request worker v is re-submitting: v continues.
RecvFromWorker(w, v) ==
    /\ proc = "running" /\ ~fetchClosed
    /\ w # v /\ wpc[w] = "recv" /\ wpc[v] = "sendRetry"
    /\ wpc' = [wpc EXCEPT ![w] = PcAfterPull(wfr[v]), ![v] = "recv"]
    /\ wfr' = [wfr EXCEPT ![w] = FrAfterPull(wfr[v]), ![v] = NoReq]
    /\ wout' = [wout EXCEPT ![v] = NoResult]
    /\ abandoned' = AbandonedAfterPull(wfr[v])
    /\ UNCHANGED <<proc, mainVars, fetchClosed, saveClosed, wresp, saveVars>>
    /\ UNCHANGED variantVars

\* client.Do(req) returns and the worker classifies the result: it goes on
\* to push fr back onto fetchPipeline or a RobotResponse onto savePipeline.
Fetch(w, o) ==
    /\ proc = "running" /\ wpc[w] = "http"
    /\ LET r == ClientDo(o)
           d == FetchDecision(wfr[w], r)
       IN  /\ wout' = [wout EXCEPT ![w] = r]
           /\ wpc' = [wpc EXCEPT ![w] = IF d.act = "retry" THEN "sendRetry" ELSE "sendSave"]
           /\ wfr' = [wfr EXCEPT ![w] = d.fr]
           /\ wresp' = [wresp EXCEPT ![w] = d.resp]
    /\ UNCHANGED <<proc, mainVars, fetchClosed, saveClosed, saveVars, abandoned>>
    /\ UNCHANGED variantVars

\* A send on the closed fetchPipeline panics, also one that was blocked
\* when main closed it: the process dies.
SendOnClosed(w) ==
    /\ proc = "running" /\ wpc[w] = "sendRetry" /\ fetchClosed
    /\ Halt("panic")
    /\ UNCHANGED <<committed, pushed, flushed>>
    /\ UNCHANGED variantVars

\* range over the closed fetchPipeline ends; the deferred fetchGroup.Done().
WorkerExit(w) ==
    /\ proc = "running" /\ wpc[w] = "recv" /\ fetchClosed
    /\ wpc' = [wpc EXCEPT ![w] = "exited"]
    /\ UNCHANGED <<proc, mainVars, fetchClosed, saveClosed, wfr, wout, wresp,
                   saveVars, abandoned>>
    /\ UNCHANGED variantVars

\* ------------------------------------------------------------- saveRobots

\* As Inserted, with a statement that is not bound to the transaction.
InsertedAutocommit(table, open, resp) == [table |-> Append(table, resp), open |-> open]

\* insertSql.Exec inside the open transaction: the row joins the
\* transaction; the table is as it was.
Inserted(table, open, resp) == [table |-> table, open |-> Append(open, resp)]

\* As Commit, losing the transaction's rows.
CommitNothing(table, open) == table

\* tx.Commit(): the transaction's rows join the table.
Commit(table, open) == table \o open

\* SELECT COUNT(*) FROM robots
CountRows(table) == Len(table)

\* case resp, channelOpen := <-savePipeline with a response of worker w:
\* the insert, which may fail (log.Fatal), and the two counters.
SaveRecv(w, fault) ==
    /\ proc = "running" /\ spc = "loop" /\ ~saveClosed
    /\ wpc[w] = "sendSave"
    /\ pushed' = Append(pushed, wresp[w])
    /\ IF fault
       THEN Halt("fatal") /\ UNCHANGED <<committed, flushed>>
       ELSE /\ wpc' = [wpc EXCEPT ![w] = "recv"]
            /\ wresp' = [wresp EXCEPT ![w] = NoResp]
            /\ wout' = [wout EXCEPT ![w] = NoResult]
            /\ tx' = Inserted(committed, tx, wresp[w]).open
            /\ committed' = Inserted(committed, tx, wresp[w]).table
            /\ failCount' = IF wresp[w].Url = "" THEN failCount + 1 ELSE failCount
            /\ saveCount' = saveCount + 1
            /\ UNCHANGED <<proc, mainVars, fetchClosed, saveClosed, wfr, spc,
                           total, flushed, faults, abandoned>>
    /\ UNCHANGED variantVars

\* As SaveTick, with errors that are logged and the loop going on: a failed
\* commit leaves the table as it was and the next transaction starts empty.
SaveTickLenient(fault) ==
    /\ proc = "running" /\ spc = "loop"
    /\ saveCount' = 0
    /\ failCount' = 0
    /\ tx' = <<>>
    /\ committed' = IF fault = "commit" THEN committed ELSE Commit(committed, tx)
    /\ flushed' = IF fault = "commit" THEN flushed ELSE Len(pushed)
    /\ faults' = IF fault = "none" THEN faults ELSE faults + 1
    /\ UNCHANGED <<proc, mainVars, fetchClosed, saveClosed, workerVars,
                   spc, total, pushed, abandoned>>
    /\ UNCHANGED variantVars

\* case <-tick: the counters are reset, the transaction committed and the
\* next one begun and its statement prepared; each of the three may fail.
SaveTick(fault) ==
    /\ proc = "running" /\ spc = "loop"
    /\ IF fault = "none"
       THEN /\ saveCount' = 0
            /\ failCount' = 0
            /\ tx' = <<>>
            /\ committed' = Commit(committed, tx)
            /\ flushed' = Len(pushed)
            /\ UNCHANGED <<proc, mainVars, fetchClosed, saveClosed, workerVars,
                           spc, total, pushed, faults, abandoned>>
       ELSE /\ Halt("fatal")
            /\ committed' = IF fault = "commit" THEN committed ELSE Commit(committed, tx)
            /\ flushed' = IF fault = "commit" THEN flushed ELSE Len(pushed)
            /\ UNCHANGED pushed
    /\ UNCHANGED variantVars

\* savePipeline is closed: break Loop and the last tx.Commit().
SaveFinalCommit(fault) ==
    /\ proc = "running" /\ spc = "loop" /\ saveClosed
    /\ IF fault
       THEN Halt("fatal") /\ UNCHANGED <<committed, pushed, flushed>>
       ELSE /\ spc' = "count"
            /\ tx' = <<>>
            /\ committed' = Commit(committed, tx)
            /\ flushed' = Len(pushed)
            /\ UNCHANGED <<proc, mainVars, fetchClosed, saveClosed, workerVars,
                           saveCount, failCount, total, pushed, faults, abandoned>>
    /\ UNCHANGED variantVars

\* The COUNT(*) query, rows.Scan(&total) and the deferred wg.Done().
SaveCount(fault) ==
    /\ proc = "running" /\ spc = "count"
    /\ IF fault
       THEN Halt("fatal") /\ UNCHANGED <<committed, pushed, flushed>>
       ELSE /\ spc' = "done"
            /\ total' = CountRows(committed)
            /\ UNCHANGED <<proc, mainVars, fetchClosed, saveClosed, workerVars,
                           tx, committed, saveCount, failCount, pushed, flushed,
                           faults, abandoned>>
    /\ UNCHANGED variantVars

\* ------------------------------------------------------------------ spec

Next ==
    \/ \E d \in InputDomains : MainReadLine(d)
    \/ MainEOF
    \/ MainCloseFetch
    \/ MainCloseSave
    \/ MainDone
    \/ \E w \in Workers : RecvFromMain(w)
    \/ \E w \in Workers, v \in Workers : RecvFromWorker(w, v)
    \/ \E w \in Workers, o \in PipeOutcomes : Fetch(w, o)
    \/ \E w \in Workers : SendOnClosed(w)
    \/ \E w \in Workers : WorkerExit(w)
    \/ \E w \in Workers, fault \in BOOLEAN : SaveRecv(w, fault)
    \/ \E fault \in {"none", "commit", "begin", "prepare"} : SaveTick(fault)
    \/ \E fault \in BOOLEAN : SaveFinalCommit(fault)
    \/ \E fault \in BOOLEAN : SaveCount(fault)

Spec == Init /\ [][Next]_vars

\* ------------------------------------------------- one attempt, every outcome

\* The requests a worker can hold at client.Do: the first or the second
\* attempt, of a domain as read from stdin or after the www fallback.
HeldRequests ==
    { [Domain |-> "a.com", Attempt |-> 1, lin |-> 1, tries |-> 0, fb |-> 0, rd |-> 0],
      [Domain |-> "a.com", Attempt |-> 2, lin |-> 1, tries |-> 1, fb |-> 0, rd |-> 0],
      [Domain |-> "www.a.com", Attempt |-> 2, lin |-> 1, tries |-> 1, fb |-> 1, rd |-> 0],
      [Domain |-> "www.b.org", Attempt |-> 1, lin |-> 1, tries |-> 0, fb |-> 0, rd |-> 0],
      [Domain |-> "www.b.org", Attempt |-> 2, lin |-> 1, tries |-> 1, fb |-> 0, rd |-> 0] }

\* A worker has pulled the request of the first line and is at client.Do.
FetchInit ==
    /\ proc = "running"
    /\ mainPc = "read"
    /\ mainReq = NoReq
    /\ nread = 1
    /\ fetchClosed = FALSE
    /\ saveClosed = FALSE
    /\ \E w \in Workers, fr \in HeldRequests :
          /\ wpc = [v \in Workers |-> IF v = w THEN "http" ELSE "recv"]
          /\ wfr = [v \in Workers |-> IF v = w THEN fr ELSE NoReq]
    /\ wout = [w \in Workers |-> NoResult]
    /\ wresp = [w \in Workers |-> NoResp]
    /\ InitSave
    /\ abandoned = {}
    /\ VariantsStart

FetchNext == \E w \in Workers, o \in AllOutcomes : Fetch(w, o)

FetchSpec == FetchInit /\ [][FetchNext]_vars

\* ------------------------------------- more input lines than workers

\* The outcomes of these runs: a retry and a result.
PoolOutcomes ==
    { Outcome("opTimeout", 0, 0, <<>>, FALSE),
      Outcome("none", 0, 404, <<>>, FALSE) }

\* The pipeline with PoolDomains lines on stdin and a sink that works.
PoolNext ==
    \/ ReadLine("a.com", PoolDomains)
    \/ MainEOF
    \/ MainCloseFetch
    \/ MainCloseSave
    \/ MainDone
    \/ \E w \in Workers : RecvFromMain(w)
    \/ \E w \in Workers, v \in Workers : RecvFromWorker(w, v)
    \/ \E w \in Workers, o \in PoolOutcomes : Fetch(w, o)
    \/ \E w \in Workers : SendOnClosed(w)
    \/ \E w \in Workers : WorkerExit(w)
    \/ \E w \in Workers : SaveRecv(w, FALSE)
    \/ SaveTick("none")
    \/ SaveFinalCommit(FALSE)
    \/ SaveCount(FALSE)

PoolSpec == Init /\ [][PoolNext]_vars

\* ------------------------------------- the earlier pipeline, part_002

\* part_002's RobotResponse{Domain, Url, HasRobots, FetchTime, Body}; lin is
\* the history field.
Part2Response(domain, url, hasRobots, body, lin) ==
    [Domain |-> domain, Url |-> url, HasRobots |-> hasRobots, Body |-> body,
     lin |-> lin]

\* What the network answers to part_002's client.Do, whose client has the
\* default redirect policy: an error, or a response reached directly or over
\* one redirect.
Part2Outcomes ==
    { Outcome("opRefused", 0, 0, <<>>, FALSE) }
    \cup { Outcome("none", h, st, c, r) :
             h \in {0, 1}, st \in {200, 404},
             c \in {<<"text/plain">>, <<"text/html">>, <<"text/html", "text">>},
             r \in BOOLEAN }

\* The loop over resp.Header["Content-Type"], from value i on: a value that
\* is not plaintext pushes a failure, and its continue goes on with the next
\* value.
RECURSIVE Part2TypeFailures(_, _, _)
Part2TypeFailures(ctypes, i, failure) ==
    IF i > Len(ctypes) THEN <<>>
    ELSE (IF ~HasPrefix(ctypes[i], "text/plain") THEN <<failure>> ELSE <<>>)
         \o Part2TypeFailures(ctypes, i + 1, failure)

\* One pass of fetchRobot's loop body for `domain` with outcome o: the
\* RobotResponses it pushes, in order, before it continues or reaches the
\* error check of ioutil.ReadAll.
Part2Pushes(domain, lin, o) ==
    LET url == "http://" \o domain \o "/robots.txt"
        finalUrl == IF o.hops = 0 THEN url ELSE RedirectTarget
    IN  IF o.err # "none"
        THEN <<Part2Response(domain, "", FALSE, "", lin)>>
        ELSE IF o.status < 200 \/ o.status > 206
        THEN <<Part2Response(domain, finalUrl, FALSE, "", lin)>>
        ELSE Part2TypeFailures(o.ctypes, 1, Part2Response(domain, finalUrl, FALSE, "", lin))
             \o (IF o.readErr THEN <<>>
                 ELSE <<Part2Response(domain, finalUrl, TRUE, RobotsBody, lin)>>)

\* Whether the pass reaches ioutil.ReadAll and it fails.
Part2ReadFails(o) ==
    o.err = "none" /\ ~(o.status < 200 \/ o.status > 206) /\ o.readErr

\* Where a worker is with `todo` left to push.
Part2Pc(todo, readErr) ==
    IF todo # <<>> THEN "push" ELSE IF readErr THEN "readall" ELSE "recv"

\* main reads a line and sends the domain, worker w receives it and its
\* client.Do returns.
Part2Pull(w, d, o) ==
    /\ p2proc = "running" /\ ~p2closed /\ p2fed < NumDomains
    /\ p2pc[w] = "recv"
    /\ p2fed' = p2fed + 1
    /\ p2lin' = [p2lin EXCEPT ![w] = p2fed + 1]
    /\ p2todo' = [p2todo EXCEPT ![w] = Part2Pushes(d, p2fed + 1, o)]
    /\ p2readErr' = [p2readErr EXCEPT ![w] = Part2ReadFails(o)]
    /\ p2pc' = [p2pc EXCEPT ![w] = Part2Pc(Part2Pushes(d, p2fed + 1, o), Part2ReadFails(o))]
    /\ UNCHANGED <<p2proc, p2closed, p2got>>
    /\ UNCHANGED <<pipeVars, cliVars>>

\* savePipeline <- RobotResponse{...}: saveRobots receives the next
\* RobotResponse of worker w.
Part2Push(w) ==
    /\ p2proc = "running" /\ p2pc[w] = "push"
    /\ p2got' = Append(p2got, Head(p2todo[w]))
    /\ p2todo' = [p2todo EXCEPT ![w] = Tail(@)]
    /\ p2pc' = [p2pc EXCEPT ![w] = Part2Pc(Tail(p2todo[w]), p2readErr[w])]
    /\ p2lin' = [p2lin EXCEPT ![w] = IF Part2Pc(Tail(p2todo[w]), p2readErr[w]) = "recv"
                                     THEN 0 ELSE @]
    /\ UNCHANGED <<p2proc, p2closed, p2fed, p2readErr>>
    /\ UNCHANGED <<pipeVars, cliVars>>

\* ioutil.ReadAll returns an error: log.Fatal.
Part2ReadAllFatal(w) ==
    /\ p2proc = "running" /\ p2pc[w] = "readall"
    /\ p2proc' = "fatal"
    /\ p2pc' = [v \in Part2Workers |-> "dead"]
    /\ p2todo' = [v \in Part2Workers |-> <<>>]
    /\ UNCHANGED <<p2closed, p2fed, p2lin, p2readErr, p2got>>
    /\ UNCHANGED <<pipeVars, cliVars>>

\* reader.ReadString returns an error: break and close(fetchPipeline).
Part2CloseFetch ==
    /\ p2proc = "running" /\ ~p2closed
    /\ p2closed' = TRUE
    /\ UNCHANGED <<p2proc, p2fed, p2pc, p2lin, p2todo, p2readErr, p2got>>
    /\ UNCHANGED <<pipeVars, cliVars>>

\* range over the closed fetchPipeline ends.
Part2WorkerExit(w) ==
    /\ p2proc = "running" /\ p2closed /\ p2pc[w] = "recv"
    /\ p2pc' = [p2pc EXCEPT ![w] = "exited"]
    /\ UNCHANGED <<p2proc, p2closed, p2fed, p2lin, p2todo, p2readErr, p2got>>
    /\ UNCHANGED <<pipeVars, cliVars>>

\* fetchGroup.Wait(), close(savePipeline), saveGroup.Wait(): main returns.
Part2Done ==
    /\ p2proc = "running" /\ p2closed
    /\ \A w \in Part2Workers : p2pc[w] = "exited"
    /\ p2proc' = "done"
    /\ UNCHANGED <<p2closed, p2fed, p2pc, p2lin, p2todo, p2readErr, p2got>>
    /\ UNCHANGED <<pipeVars, cliVars>>

Part2Next ==
    \/ \E w \in Part2Workers, d \in InputDomains, o \in Part2Outcomes : Part2Pull(w, d, o)
    \/ \E w \in Part2Workers : Part2Push(w)
    \/ \E w \in Part2Workers : Part2ReadAllFatal(w)
    \/ Part2CloseFetch
    \/ \E w \in Part2Workers : Part2WorkerExit(w)
    \/ Part2Done

Part2Spec == Init /\ [][Part2Next]_vars

\* --------------------------------- the command line variant, gogorobotcli.go

\* What the network answers to the client.Get calls of these runs.
CliOutcomes ==
    { Outcome("dnsNoHost", 0, 0, <<>>, FALSE),
      Outcome("none", 1, 200, <<"text/plain">>, FALSE),
      Outcome("none", 0, 200, <<"text/html">>, FALSE),
      Outcome("none", 0, 404, <<>>, FALSE) }

\* The lines stdin holds in these runs.
CliInput == {"a.com"}

\* attempt < 4: the Get is tried again after an error.
CliMaxRetries == 4

\* s.Scan() returns true: the reader makes the task and goes on to send it.
CliScan(line) ==
    /\ cproc = "running" /\ crpc = "scan" /\ taskCount < NumDomains
    /\ creq' = CliTask(line, taskCount + 1)
    /\ crpc' = "send"
    /\ UNCHANGED <<cproc, taskCount, inClosed, cwpc, cwt, cwloc, success, wgCount,
                   outClosed, printed>>
    /\ UNCHANGED <<pipeVars, part2Vars>>

\* s.Scan() returns false at the end of stdin: close(in) and wg.Done().
CliEOF ==
    /\ cproc = "running" /\ crpc = "scan"
    /\ inClosed' = TRUE
    /\ wgCount' = wgCount - 1
    /\ crpc' = "done"
    /\ UNCHANGED <<cproc, creq, taskCount, cwpc, cwt, cwloc, success, outClosed,
                   printed>>
    /\ UNCHANGED <<pipeVars, part2Vars>>

\* s.Scan() returns false with s.Err() set: log.Fatalf exits the process
\* and its goroutines are gone.
CliScanFatal ==
    /\ cproc = "running" /\ crpc = "scan"
    /\ cproc' = "fatal"
    /\ crpc' = "dead"
    /\ creq' = NoTask
    /\ cwpc' = [w \in CliWorkers |-> "dead"]
    /\ cwt' = [w \in CliWorkers |-> NoTask]
    /\ cwloc' = [w \in CliWorkers |-> NoLocals]
    /\ UNCHANGED <<taskCount, inClosed, success, wgCount, outClosed, printed>>
    /\ UNCHANGED <<pipeVars, part2Vars>>

\* for t := range in receives the task the reader sends: t.process() begins
\* and the reader counts the task.
CliRecv(w) ==
    /\ cproc = "running" /\ crpc = "send" /\ cwpc[w] = "recv"
    /\ cwt' = [cwt EXCEPT ![w] = creq]
    /\ cwloc' = [cwloc EXCEPT ![w] = NoLocals]
    /\ cwpc' = [cwpc EXCEPT ![w] = "get"]
    /\ creq' = NoTask
    /\ taskCount' = taskCount + 1
    /\ crpc' = "scan"
    /\ UNCHANGED <<cproc, inClosed, success, wgCount, outClosed, printed>>
    /\ UNCHANGED <<pipeVars, part2Vars>>

\* process() from FETCH_START to the goto, the return or r.HasRobots = true,
\* for a task t with the locals loc and the result r of client.Get; a return
\* ends the locals.
CliProcess(t, loc, r) ==
    LET got == [t EXCEPT !.Url = "http://" \o t.Domain \o "/robots.txt",
                         !.Redirects = r.lastVia]
        seen == [loc EXCEPT !.lastVia = r.lastVia]
        final == [got EXCEPT !.Url = IF r.followed = 0 THEN @ ELSE RedirectTarget]
    IN  IF r.err # "none"
        THEN IF IsOpError(r.err) /\ IsDNSError(r.err) /\ ~HasPrefix(t.Domain, "www.")
             THEN [pc |-> "get", t |-> [got EXCEPT !.Domain = "www." \o @], loc |-> seen]
             ELSE IF loc.attempt < CliMaxRetries
             THEN [pc |-> "get", t |-> got, loc |-> [seen EXCEPT !.attempt = @ + 1]]
             ELSE [pc |-> "send", t |-> got, loc |-> NoLocals]
        ELSE IF r.status < 200 \/ r.status > 206
        THEN [pc |-> "send", t |-> final, loc |-> NoLocals]
        ELSE IF ~IsPlaintext(r.ctypes)
        THEN [pc |-> "send", t |-> final, loc |-> NoLocals]
        ELSE [pc |-> "load", t |-> [final EXCEPT !.HasRobots = TRUE], loc |-> seen]

\* client.Get returns with outcome o; lastVia keeps its value unless
\* CheckRedirect is called.
CliGet(w, o) ==
    /\ cproc = "running" /\ cwpc[w] = "get"
    /\ LET n == CliProcess(cwt[w], cwloc[w], Follow(o, 0, cwloc[w].lastVia))
       IN  /\ cwpc' = [cwpc EXCEPT ![w] = n.pc]
           /\ cwt' = [cwt EXCEPT ![w] = n.t]
           /\ cwloc' = [cwloc EXCEPT ![w] = n.loc]
    /\ UNCHANGED <<cproc, crpc, creq, taskCount, inClosed, success, wgCount,
                   outClosed, printed>>
    /\ UNCHANGED <<pipeVars, part2Vars>>

\* success += 1, the read of the global.
CliLoad(w) ==
    /\ cproc = "running" /\ cwpc[w] = "load"
    /\ cwloc' = [cwloc EXCEPT ![w].reg = success]
    /\ cwpc' = [cwpc EXCEPT ![w] = "store"]
    /\ UNCHANGED <<cproc, crpc, creq, taskCount, inClosed, cwt, success, wgCount,
                   outClosed, printed>>
    /\ UNCHANGED <<pipeVars, part2Vars>>

\* success += 1, the write of the global; then ioutil.ReadAll, which sets
\* r.Body unless it fails, and process() returns.
CliStore(w, readErr) ==
    /\ cproc = "running" /\ cwpc[w] = "store"
    /\ success' = cwloc[w].reg + 1
    /\ cwt' = [cwt EXCEPT ![w].Body = IF readErr THEN "" ELSE RobotsBody]
    /\ cwpc' = [cwpc EXCEPT ![w] = "send"]
    /\ cwloc' = [cwloc EXCEPT ![w] = NoLocals]
    /\ UNCHANGED <<cproc, crpc, creq, taskCount, inClosed, wgCount,
                   outClosed, printed>>
    /\ UNCHANGED <<pipeVars, part2Vars>>

\* out <- t is received by for t := range out, which prints the task.
CliPrint(w) ==
    /\ cproc = "running" /\ cwpc[w] = "send" /\ ~outClosed
    /\ printed' = Append(printed, [lin |-> cwt[w].lin, HasRobots |-> cwt[w].HasRobots])
    /\ cwt' = [cwt EXCEPT ![w] = NoTask]
    /\ cwloc' = [cwloc EXCEPT ![w] = NoLocals]
    /\ cwpc' = [cwpc EXCEPT ![w] = "recv"]
    /\ UNCHANGED <<cproc, crpc, creq, taskCount, inClosed, success, wgCount,
                   outClosed>>
    /\ UNCHANGED <<pipeVars, part2Vars>>

\* range over the closed in ends: wg.Done().
CliWorkerExit(w) ==
    /\ cproc = "running" /\ cwpc[w] = "recv" /\ inClosed
    /\ cwpc' = [cwpc EXCEPT ![w] = "exited"]
    /\ wgCount' = wgCount - 1
    /\ UNCHANGED <<cproc, crpc, creq, taskCount, inClosed, cwt, cwloc, success,
                   outClosed, printed>>
    /\ UNCHANGED <<pipeVars, part2Vars>>

\* As CliCloseOut, without the wg.Wait().
CliCloseOutNoWait ==
    /\ cproc = "running" /\ ~outClosed
    /\ outClosed' = TRUE
    /\ UNCHANGED <<cproc, crpc, creq, taskCount, inClosed, cwpc, cwt, cwloc,
                   success, wgCount, printed>>
    /\ UNCHANGED <<pipeVars, part2Vars>>

\* wg.Wait() returns: close(out).
CliCloseOut ==
    /\ cproc = "running" /\ wgCount = 0 /\ ~outClosed
    /\ outClosed' = TRUE
    /\ UNCHANGED <<cproc, crpc, creq, taskCount, inClosed, cwpc, cwt, cwloc,
                   success, wgCount, printed>>
    /\ UNCHANGED <<pipeVars, part2Vars>>

\* range over the closed out ends and run() returns.
CliReturn ==
    /\ cproc = "running" /\ outClosed
    /\ cproc' = "returned"
    /\ UNCHANGED <<crpc, creq, taskCount, inClosed, cwpc, cwt, cwloc, success,
                   wgCount, outClosed, printed>>
    /\ UNCHANGED <<pipeVars, part2Vars>>

CliNext ==
    \/ \E line \in CliInput : CliScan(line)
    \/ CliEOF
    \/ CliScanFatal
    \/ \E w \in CliWorkers : CliRecv(w)
    \/ \E w \in CliWorkers, o \in CliOutcomes : CliGet(w, o)
    \/ \E w \in CliWorkers : CliLoad(w)
    \/ \E w \in CliWorkers, readErr \in BOOLEAN : CliStore(w, readErr)
    \/ \E w \in CliWorkers : CliPrint(w)
    \/ \E w \in CliWorkers : CliWorkerExit(w)
    \/ CliCloseOut
    \/ CliReturn

CliSpec == Init /\ [][CliNext]_vars

\* The same with a scheduler that lets every goroutine that can run take its
\* next step, and client.Get calls that return.
CliFairSpec == CliSpec /\ WF_vars(CliNext)

\* ---------------------------------------------------------------- claims

\* The lines main has handed to a worker or is handing over.
Fed == 1..nread

\* How many responses of lineage l saveRobots has received.
ResultCount(l) == Cardinality({i \in 1..Len(pushed) : pushed[i].lin = l})

IsAbandoned(l) == \E a \in abandoned : a.lin = l

\* The requests that exist: the one main is sending and those workers hold.
InFlight ==
    (IF mainPc = "send" THEN {mainReq} ELSE {})
    \cup {wfr[w] : w \in {v \in Workers : wpc[v] \in {"http", "sendRetry"}}}

\* The rows of the table that this run inserted, and the number of the others.
RunRows(table) == SelectSeq(table, LAMBDA r : r.lin # 0)
PriorLen(table) == Len(table) - Len(RunRows(table))

PlainAll(ctypes) == \A i \in 1..Len(ctypes) : HasPrefix(ctypes[i], "text/plain")

\* C1: when the process has ended, by main returning or by a panic, every
\* request main fed has had exactly one of the two ends: one RobotResponse
\* pushed onto savePipeline, or abandoned at the attempt check.
C1_ExactlyOneOutcome ==
    (mainPc = "done" \/ proc = "panic") =>
        \A l \in Fed :
            \/ ResultCount(l) = 1 /\ ~IsAbandoned(l)
            \/ ResultCount(l) = 0 /\ IsAbandoned(l)

\* C2: a worker that has a response of the server in hand pushes a
\* RobotResponse whose HasRobots is true exactly if the status is in 200..206
\* and every Content-Type value starts with "text/plain"; a response that
\* fails either test yields a RobotResponse with HasRobots false.
C2_HasRobotsIff ==
    \A w \in Workers :
        (wpc[w] \in {"sendSave", "sendRetry"} /\ wout[w].err = "none") =>
            LET ok == wout[w].status \in 200..206 /\ PlainAll(wout[w].ctypes)
            IN  /\ wpc[w] = "sendSave" => (wresp[w].HasRobots <=> ok)
                /\ ~ok => (wpc[w] = "sendSave" /\ ~wresp[w].HasRobots)

\* A 206 with two plaintext Content-Type values was classified as success.
C2_Witness ==
    \E w \in Workers :
        /\ wpc[w] = "sendSave" /\ wout[w].err = "none"
        /\ wout[w].status = 206 /\ Len(wout[w].ctypes) = 2
        /\ wresp[w].HasRobots

\* C3: no lineage takes the www fallback twice: every request that exists or
\* was abandoned has fallen back at most once, and no request's domain has
\* "www." prepended to a domain that already starts with "www.".
C3_FallbackAtMostOnce ==
    /\ \A fr \in InFlight : fr.fb <= 1 /\ ~HasPrefix(fr.Domain, "www.www.")
    /\ \A a \in abandoned : a.fb <= 1

\* A lineage that fell back to "www.a.com" failed DNS resolution again and
\* the worker pushes a failure instead of a second fallback.
C3_Witness ==
    \E w \in Workers :
        /\ wpc[w] = "sendSave" /\ wout[w].err = "dnsNoHost"
        /\ wresp[w].Domain = "www.a.com"

\* C4: the fallback does not consume the attempt budget: the Attempt a
\* re-submitted request carries counts the attempts of its lineage that did
\* not end in the www fallback.
C4_FallbackKeepsAttempt ==
    \A w \in Workers :
        wpc[w] = "sendRetry" => wfr[w].Attempt = wfr[w].tries - wfr[w].fb

\* C5 as stated: a lineage abandoned after nothing but timeouts and temporary
\* errors has made MaxAttempts + 1 HTTP attempts.
C5_ThreeAttempts ==
    \A a \in abandoned : (a.fb = 0 /\ a.rd = 0) => a.tries = MaxAttempts + 1

\* C5 as amended: such a lineage has made exactly MaxAttempts = 2 HTTP
\* attempts, and every HTTP attempt runs with Attempt 1 or 2.
C5_TwoAttempts ==
    /\ \A a \in abandoned : (a.fb = 0 /\ a.rd = 0) => a.tries = MaxAttempts
    /\ \A w \in Workers : wpc[w] = "http" => wfr[w].Attempt \in 1..MaxAttempts

\* A lineage was abandoned after two attempts that timed out.
C5_Witness ==
    \E a \in abandoned : a.fb = 0 /\ a.rd = 0 /\ a.tries = MaxAttempts

\* C6: the Redirects of every RobotResponse a worker pushes is the number of
\* redirects the client followed in that attempt.
C6_RedirectsRecorded ==
    \A w \in Workers :
        wpc[w] = "sendSave" => wresp[w].Redirects = wout[w].followed

\* C7: while the process runs, the rows this run has put into the table
\* followed by those of the open transaction are the responses received, in
\* order, each once; when saveRobots has ended, the table holds them all.
C7_CommittedExactlyOnce ==
    /\ proc = "running" => RunRows(committed) \o tx = pushed
    /\ spc = "done" => (tx = <<>> /\ RunRows(committed) = pushed)

\* saveRobots has ended after receiving two responses.
C7_Witness == spc = "done" /\ Len(pushed) = 2

\* C8: the table holds, besides the rows of earlier runs, the responses
\* received before the last commit and no other; and the total read at the
\* end counts every response received.
C8_VisibleOnlyAfterCommit ==
    /\ CountRows(committed) = PriorLen(committed) + flushed
    /\ \A i \in 1..Len(tx) : \A j \in 1..Len(committed) : committed[j].lin # tx[i].lin
    /\ total # -1 => (flushed = Len(pushed) /\ total = PriorLen(committed) + Len(pushed))

\* A response sits in the open transaction while an earlier one is committed.
C8_Witness ==
    /\ proc = "running" /\ spc = "loop"
    /\ Len(tx) = 1 /\ flushed = 1 /\ Len(pushed) = 2

\* C9: savePipeline is closed only when every worker has exited, so no worker
\* is sending on it when it is closed.
C9_SaveClosedAfterWorkers ==
    saveClosed =>
        /\ \A w \in Workers : wpc[w] = "exited"
        /\ \A w \in Workers : wpc[w] # "sendSave"

\* savePipeline is closed after the workers delivered a response.
C9_Witness == saveClosed /\ Len(pushed) >= 1

\* C10: no worker is sending a request on fetchPipeline when it is closed,
\* and the process never panics.
C10_NoSendOnClosed ==
    /\ proc # "panic"
    /\ \A w \in Workers : ~(wpc[w] = "sendRetry" /\ fetchClosed)

\* The HTTP attempts in flight: the workers inside client.Do.
AttemptsInFlight == {w \in Workers : wpc[w] = "http"}

RowLins(table, open) ==
    {table[i].lin : i \in 1..Len(table)} \cup {open[i].lin : i \in 1..Len(open)}

\* C12: an abandoned lineage is over and has left no trace: no request of
\* it exists, no worker holds a response for it, saveRobots has received
\* none, and no row of it is in the table or the open transaction; and every
\* response saveRobots receives is the result of a line main fed.
C12_AbandonSilent ==
    /\ \A a \in abandoned :
          /\ ResultCount(a.lin) = 0
          /\ \A w \in Workers : wresp[w].lin # a.lin
          /\ \A fr \in InFlight : fr.lin # a.lin
          /\ a.lin \notin RowLins(committed, tx)
    /\ \A i \in 1..Len(pushed) : pushed[i].lin \in Fed

\* The run has ended with one lineage abandoned and the others' rows in the
\* table.
C12_Witness ==
    /\ spc = "done" /\ abandoned # {}
    /\ Len(pushed) = nread - Cardinality(abandoned) /\ Len(pushed) >= 1

\* C13: the first failed operation on robots.db ends the process: there is
\* never a second one, the process is dead exactly when one has failed, and
\* then no goroutine goes on, the table is as the last commit that worked
\* left it and the total has not been read.
C13_SinkFaultFatal ==
    /\ faults <= 1
    /\ faults = 1 <=> proc = "fatal"
    /\ proc = "fatal" =>
          /\ spc = "dead" /\ mainPc = "dead"
          /\ \A w \in Workers : wpc[w] = "dead"
          /\ CountRows(committed) = PriorLen(committed) + flushed
          /\ total = -1

\* The process died of a sink fault with a response received and not
\* committed.
C13_Witness == proc = "fatal" /\ faults = 1 /\ flushed < Len(pushed)

\* The attempt of worker w ended in protocol non-compliance: the redirect
\* cap was exceeded, or the response has a status outside 200..206 or a
\* Content-Type value that is not text/plain.
NonCompliant(w) ==
    \/ wout[w].err = "redirect"
    \/ wout[w].err = "none" /\ wout[w].status \notin 200..206
    \/ wout[w].err = "none" /\ ~PlainAll(wout[w].ctypes)

\* C14: a worker whose attempt ended in protocol non-compliance pushes a
\* failed RobotResponse with a non-empty Url, and a RobotResponse with an
\* empty Url is pushed only after a definitive transport fault.
C14_NonComplianceHasUrl ==
    \A w \in Workers :
        wpc[w] \in {"sendSave", "sendRetry"} =>
            /\ NonCompliant(w) =>
                  wpc[w] = "sendSave" /\ ~wresp[w].HasRobots /\ wresp[w].Url # ""
            /\ (wpc[w] = "sendSave" /\ wresp[w].Url = "") =>
                  wout[w].err \in {"dnsNoHost", "opRefused", "other"}

\* Worker w ends an attempt on a domain that starts with "www." in a DNS
\* error.
WwwDnsFailure(w) ==
    /\ wpc[w] = "http" /\ wpc'[w] # "http"
    /\ HasPrefix(wfr[w].Domain, "www.")
    /\ IsDNSError(wout'[w].err)

\* C15 as stated: a DNS failure of the "www." domain is handled as a
\* transient fault: the request is re-submitted and no RobotResponse pushed.
C15_WwwDnsFailureRetried ==
    [][\A w \in Workers : WwwDnsFailure(w) => wpc'[w] = "sendRetry"]_vars

\* C15 as amended: there is no second fallback; the request is re-submitted
\* as it is only if the DNS error is a timeout or temporary, and else the
\* worker pushes a failed RobotResponse with an empty Url and no redirects.
C15_WwwDnsFailureByKind ==
    [][\A w \in Workers : WwwDnsFailure(w) =>
          IF wout'[w].err = "dnsTimeout"
          THEN /\ wpc'[w] = "sendRetry"
               /\ wfr'[w].Domain = wfr[w].Domain /\ wfr'[w].fb = wfr[w].fb
               /\ wfr'[w].Attempt = wfr[w].Attempt
          ELSE /\ wpc'[w] = "sendSave"
               /\ wresp'[w] = RobotResponse(wfr[w].Domain, "", FALSE, "", 0, wfr[w].lin)]_vars

\* The fallback domain "www.a.com" did not resolve either and the worker
\* pushes the failure with the empty Url.
C15_Witness ==
    \E w \in Workers :
        /\ wpc[w] = "sendSave" /\ wout[w].err = "dnsNoHost"
        /\ wresp[w] = RobotResponse("www.a.com", "", FALSE, "", 0, 1)

\* C16: the pipeline is never stuck on re-submission: while the process
\* runs, the workers are not all blocked sending a request on fetchPipeline,
\* which only a worker at the head of its loop receives from.
C16_NeverAllBlockedOnRetry ==
    ~(proc = "running" /\ \A w \in Workers : wpc[w] = "sendRetry")

\* C17: every response saveRobots has inserted is committed in the end: when
\* the process has ended, by main returning or by a panic, the responses
\* received have all been committed.
C17_InsertedIsCommitted ==
    (mainPc = "done" \/ proc = "panic") => flushed = Len(pushed)

\* The goroutines that hold lineage l: main while it sends the request, and
\* a worker from the pull to the end of that pass of its loop.
Holders(l) ==
    (IF mainPc = "send" /\ mainReq.lin = l THEN {0} ELSE {})
    \cup {w \in Workers : wpc[w] \in {"http", "sendRetry"} /\ wfr[w].lin = l}
    \cup {w \in Workers : wpc[w] = "sendSave" /\ wresp[w].lin = l}

\* C18: every lineage is held by at most one goroutine at a time, so at
\* most one copy of its request exists and no two workers run attempts for
\* it at once.
C18_OneHolderPerLineage ==
    \A l \in Fed : Cardinality(Holders(l)) <= 1

\* Two workers run attempts of different lineages at once, one of them the
\* second attempt of a request another worker re-submitted.
C18_Witness ==
    \E w \in Workers, v \in Workers :
        /\ wpc[w] = "http" /\ wpc[v] = "http"
        /\ wfr[w].lin # wfr[v].lin
        /\ wfr[w].Attempt = 2 /\ wfr[w].tries = 1

\* How many RobotResponses for line l part_002's saveRobots has received.
Part2Count(l) == Cardinality({i \in 1..Len(p2got) : p2got[i].lin = l})

\* C19: in part_002 every domain pulled produces exactly one RobotResponse:
\* never more than one, and one when the worker has finished with the
\* domain.
C19_Part2OneResponse ==
    \A l \in 1..p2fed :
        /\ Part2Count(l) <= 1
        /\ (p2proc # "fatal" /\ \A w \in Part2Workers : p2lin[w] # l) =>
              Part2Count(l) = 1

\* The tasks printed whose HasRobots is true.
PrintedWithRobots == {i \in 1..Len(printed) : printed[i].HasRobots}

\* C20: when run() has returned, success is the number of tasks whose
\* HasRobots is true.
C20_SuccessCountsRobots ==
    cproc = "returned" => success = Cardinality(PrintedWithRobots)

\* The live lineages: the lines main has accepted that have neither had a
\* RobotResponse received by saveRobots nor been abandoned.
LiveLineages == {l \in Fed : ResultCount(l) = 0 /\ ~IsAbandoned(l)}

\* C21: the live lineages are at most one per worker and the one main is
\* handing over, however many lines stdin holds.
C21_LiveAtMostPoolPlusOne == Cardinality(LiveLineages) <= NumWorkers + 1

\* Every worker holds a lineage and main is blocked sending one more, with
\* lines left on stdin.
C21_Witness ==
    /\ Cardinality(LiveLineages) = NumWorkers + 1
    /\ proc = "running" /\ mainPc = "send" /\ nread < PoolDomains
    /\ \A w \in Workers : wpc[w] \in {"http", "sendRetry", "sendSave"}

\* The lines the reader has made a task of.
Scanned == 1..(taskCount + (IF crpc = "send" THEN 1 ELSE 0))

\* Where the task of line l is: with the reader (0), with a worker, or
\* printed (the negated positions in printed).
TaskPlaces(l) ==
    (IF crpc = "send" /\ creq.lin = l THEN {0} ELSE {})
    \cup {w \in CliWorkers : cwpc[w] \in {"get", "load", "store", "send"} /\ cwt[w].lin = l}
    \cup {-i : i \in {j \in 1..Len(printed) : printed[j].lin = l}}

\* While the process lives every task made is in exactly one place; out is
\* closed only when the reader and every worker have finished; and when
\* run() has returned every task has been printed.
CliExactlyOnce ==
    /\ cproc # "fatal" => \A l \in Scanned : Cardinality(TaskPlaces(l)) = 1
    /\ \A i \in 1..Len(printed) : printed[i].lin \in Scanned
    /\ outClosed =>
          /\ crpc = "done"
          /\ \A w \in CliWorkers : cwpc[w] = "exited"
    /\ cproc = "returned" =>
          /\ Len(printed) = taskCount
          /\ \A l \in 1..taskCount : \E i \in 1..Len(printed) : printed[i].lin = l

\* C22: in run() every line read yields one task that is held by one
\* goroutine at a time and printed once; out is closed only after the reader
\* and all workers have finished, so no worker is sending on out when it is
\* closed; and once the reader has reached the end of stdin, run() returns,
\* with every task printed.
C22_CliEveryTaskOnce ==
    /\ []CliExactlyOnce
    /\ (crpc = "done") ~> (cproc = "returned")

\* run() has returned after printing a task for each of two lines, the
\* second printed first.
C22_Witness ==
    /\ cproc = "returned" /\ Len(printed) = 2
    /\ printed[1].lin = 2 /\ printed[2].lin = 1

====
